---- MODULE Spec2Model ----
(***************************************************************************)
(* Model of routes/voltage_regulators/list.tsx: the GET handler that       *)
(* builds one filtered, ordered, limited query over the voltage_regulator  *)
(* table, fetches the distinct package list, and answers with JSON or an   *)
(* HTML document.                                                          *)
(*                                                                         *)
(* Conventions.  An optional / nullable value is None (absent, undefined,  *)
(* SQL NULL) or Some(x).  Voltages are in tenths of a volt (3.3V is 33).   *)
(* Package names are sequences of byte codes so that ORDER BY can compare  *)
(* them byte-wise; the empty string is <<>>.  A row's lcsc is its rowid.   *)
(* Rows with equal stock come back in rowid order.  retried records that   *)
(* the request being answered has been sent again.                        *)
(***************************************************************************)
EXTENDS Integers, Sequences, FiniteSets, TLC

VARIABLES table, query, isApiRequest, packages, regulators, response, retried

vars == <<table, query, isApiRequest, packages, regulators, response, retried>>

None == <<>>
Some(x) == <<x>>
Get(o) == o[1]

Min(a, b) == IF a <= b THEN a ELSE b

(* ---------------- bounds of the model ---------------- *)
MaxRows == 3
MaxBlocks == 2
BlockSize == 101

(* ---------------- package names (byte codes) ---------------- *)
EmptyStr == <<>>
SOT23 == <<83, 79, 84, 45, 50, 51>>
SOT89 == <<83, 79, 84, 45, 56, 57>>
SOT223 == <<83, 79, 84, 45, 50, 50, 51>>

(* ---------------- rows of voltage_regulator ---------------- *)
Reg(pkg, otype, ldo, pos, vmin, vmax, stock) ==
    [lcsc |-> 0, mfr |-> "MFR", package |-> pkg, output_type |-> otype,
     is_low_dropout |-> ldo, is_positive |-> pos,
     output_voltage_min |-> vmin, output_voltage_max |-> vmax,
     output_current_max |-> IF ldo = Some(1) THEN Some(1) ELSE None,
     dropout_voltage |-> IF ldo = Some(1) THEN Some(2) ELSE Some(0),
     input_voltage_min |-> Some(25), input_voltage_max |-> IF pos = Some(1) THEN Some(160) ELSE None,
     quiescent_current |-> None, stock |-> stock, price1 |-> 12]

Kinds ==
    { Reg(SOT23,  "fixed",      Some(1), Some(1), Some(33),   Some(50),  10),
      Reg(SOT89,  "adjustable", Some(0), Some(1), Some(12),   Some(120), 30),
      Reg(SOT23,  "fixed",      Some(0), Some(0), Some(-120), Some(-50), 20),
      Reg(SOT223, "fixed",      Some(1), Some(1), Some(120),  None,      20),
      Reg(SOT89,  "adjustable", None,    Some(2), Some(33),   Some(33),  0) }

LimitKinds ==
    { Reg(SOT23,  "fixed",      Some(1), Some(1), Some(33),   Some(50),  10),
      Reg(SOT89,  "adjustable", Some(0), Some(1), Some(12),   Some(120), 30),
      Reg(SOT23,  "fixed",      Some(1), Some(0), Some(50),   None,      20) }

\* rowids are assigned in insertion order
MkTable(rows) == [i \in 1..Len(rows) |-> [rows[i] EXCEPT !.lcsc = i]]

RECURSIVE Flatten(_)
Flatten(blocks) ==
    IF blocks = <<>> THEN <<>>
    ELSE [i \in 1..blocks[1][2] |-> blocks[1][1]] \o Flatten(Tail(blocks))

Tables == { MkTable(s) : s \in UNION { [1..n -> Kinds] : n \in 0..MaxRows } }

Blocks == LimitKinds \X {1, BlockSize}
BigTables == { MkTable(Flatten(b)) : b \in UNION { [1..n -> Blocks] : n \in 1..MaxBlocks } }

(* ---------------- request parameters (queryParams) ---------------- *)
NoQuery == [package |-> None, output_type |-> None, is_ldo |-> None, output_voltage |-> None]

Queries ==
    [package : {None, Some(EmptyStr), Some(SOT23)},
     output_type : {None, Some(""), Some("fixed"), Some("adjustable")},
     is_ldo : {None, Some(TRUE), Some(FALSE)},
     output_voltage : {None, Some(0), Some(40), Some(100)}]

LimitQueries ==
    [package : {None, Some(SOT23)},
     output_type : {None, Some("fixed")},
     is_ldo : {None, Some(TRUE)},
     output_voltage : {None, Some(40)}]

(* ---------------- the query builder ---------------- *)
Limit == 100

\* JavaScript truthiness of an optional string (as bytes), enum member, number
TruthyStr(o) == o # None /\ Get(o) # EmptyStr
TruthyEnum(o) == o # None /\ Get(o) # ""
TruthyNum(o) == o # None /\ Get(o) # 0

\* mutant: the package predicate is never added
WherePackage_Dropped(rows, q) == rows

WherePackage(rows, q) ==
    IF TruthyStr(q.package)
    THEN LET Test(r) == r.package = Get(q.package) IN SelectSeq(rows, Test)
    ELSE rows

WhereOutputType(rows, q) ==
    IF TruthyEnum(q.output_type)
    THEN LET Test(r) == r.output_type = Get(q.output_type) IN SelectSeq(rows, Test)
    ELSE rows

\* mutant: the guard tests truthiness, so is_ldo=false adds nothing
WhereIsLdo_Truthy(rows, q) ==
    IF q.is_ldo # None /\ Get(q.is_ldo)
    THEN LET Test(r) == r.is_low_dropout = Some(1) IN SelectSeq(rows, Test)
    ELSE rows

\* a comparison with NULL is never true
WhereIsLdo(rows, q) ==
    IF q.is_ldo # None
    THEN LET want == IF Get(q.is_ldo) THEN 1 ELSE 0
             Test(r) == r.is_low_dropout = Some(want)
         IN SelectSeq(rows, Test)
    ELSE rows

\* mutant: range containment, both bounds required
VoltageMatch_Range(r, v) ==
    /\ (r.output_voltage_min # None /\ Get(r.output_voltage_min) <= v)
    /\ (r.output_voltage_max # None /\ Get(r.output_voltage_max) >= v)

\* mutant: only the upper bound is compared
VoltageMatch_MaxOnly(r, v) ==
    r.output_voltage_max # None /\ Get(r.output_voltage_max) >= v

VoltageMatch(r, v) ==
    \/ (r.output_voltage_min # None /\ Get(r.output_voltage_min) <= v)
    \/ (r.output_voltage_max # None /\ Get(r.output_voltage_max) >= v)

WhereOutputVoltage(rows, q) ==
    IF TruthyNum(q.output_voltage)
    THEN LET Test(r) == VoltageMatch(r, Get(q.output_voltage)) IN SelectSeq(rows, Test)
    ELSE rows

\* mutant: no ORDER BY
OrderByStockDesc_Unordered(rows) == rows

MaxStock(rows) == CHOOSE m \in { rows[i].stock : i \in 1..Len(rows) } :
                     \A i \in 1..Len(rows) : rows[i].stock <= m

\* ORDER BY stock DESC; rows of equal stock keep their rowid order
RECURSIVE OrderByStockDesc(_)
OrderByStockDesc(rows) ==
    IF rows = <<>> THEN <<>>
    ELSE LET m == MaxStock(rows)
             Top(r) == r.stock = m
             Rest(r) == r.stock # m
         IN SelectSeq(rows, Top) \o OrderByStockDesc(SelectSeq(rows, Rest))

\* mutant: no LIMIT
ApplyLimit_Unbounded(rows) == rows

ApplyLimit(rows) == SubSeq(rows, 1, Min(Len(rows), Limit))

\* mutant: the first 100 rows by stock are taken, then filtered
ExecuteQuery_LimitFirst(t, q) ==
    WhereOutputVoltage(WhereIsLdo(WhereOutputType(WherePackage(
        ApplyLimit(OrderByStockDesc(t)), q), q), q), q)

\* SELECT * FROM voltage_regulator WHERE ... ORDER BY stock DESC LIMIT 100
ExecuteQuery(t, q) ==
    ApplyLimit(OrderByStockDesc(
        WhereOutputVoltage(WhereIsLdo(WhereOutputType(WherePackage(t, q), q), q), q)))

(* ---------------- the packages query ---------------- *)
RECURSIVE StrLess(_, _)
StrLess(a, b) ==
    IF b = <<>> THEN FALSE
    ELSE IF a = <<>> THEN TRUE
    ELSE IF a[1] # b[1] THEN a[1] < b[1]
    ELSE StrLess(Tail(a), Tail(b))

RECURSIVE SortStrings(_)
SortStrings(S) ==
    IF S = {} THEN <<>>
    ELSE LET m == CHOOSE x \in S : \A y \in S : y = x \/ StrLess(x, y)
         IN <<m>> \o SortStrings(S \ {m})

\* mutant: neither DISTINCT nor ORDER BY
PackagesQuery_Plain(t) == [i \in 1..Len(t) |-> [package |-> t[i].package]]

\* SELECT DISTINCT package FROM voltage_regulator ORDER BY package
PackagesQuery(t) ==
    LET sorted == SortStrings({ t[i].package : i \in 1..Len(t) })
    IN [i \in 1..Len(sorted) |-> [package |-> sorted[i]]]

(* ---------------- response shaping ---------------- *)
\* mutant: Boolean(r.col)
StrictEq1_Truthy(x) == x # None /\ Get(x) # 0

\* r.col === 1
StrictEq1(x) == x = Some(1)

JsonRow(r) ==
    [lcsc |-> r.lcsc, mfr |-> r.mfr, package |-> r.package,
     output_type |-> r.output_type,
     is_low_dropout |-> StrictEq1(r.is_low_dropout),
     is_positive |-> StrictEq1(r.is_positive),
     output_voltage_min |-> r.output_voltage_min,
     output_voltage_max |-> r.output_voltage_max,
     output_current_max |-> r.output_current_max,
     dropout_voltage |-> r.dropout_voltage,
     input_voltage_min |-> r.input_voltage_min,
     input_voltage_max |-> r.input_voltage_max,
     quiescent_current |-> r.quiescent_current,
     stock |-> r.stock, price1 |-> r.price1]

JsonResponse(regs) ==
    [kind |-> "json", regulators |-> [i \in 1..Len(regs) |-> JsonRow(regs[i])]]

\* [a, b, c].filter(Boolean): None entries are dropped
TypeLabel(r) ==
    <<IF r.output_type = "fixed" THEN "Fixed" ELSE "Adjustable">>
    \o (IF TruthyNum(r.is_low_dropout) THEN <<"LDO">> ELSE <<>>)
    \o <<IF TruthyNum(r.is_positive) THEN "Positive" ELSE "Negative">>

Unit(o, u) == IF TruthyNum(o) THEN <<Get(o), u>> ELSE <<>>

HtmlRow(r) ==
    [lcsc |-> r.lcsc, mfr |-> r.mfr, package |-> r.package,
     type |-> TypeLabel(r),
     output |-> IF r.output_voltage_min = r.output_voltage_max
                THEN <<r.output_voltage_min, "V">>
                ELSE <<r.output_voltage_min, "V", r.output_voltage_max, "V">>,
     current |-> Unit(r.output_current_max, "A"),
     dropout |-> Unit(r.dropout_voltage, "V"),
     input |-> IF TruthyNum(r.input_voltage_min) /\ TruthyNum(r.input_voltage_max)
               THEN <<Get(r.input_voltage_min), "V", Get(r.input_voltage_max), "V">>
               ELSE <<>>,
     quiescent |-> Unit(r.quiescent_current, "A"),
     stock |-> r.stock,
     price |-> <<"formatPrice", r.price1>>]

HtmlForm(pkgs, q) ==
    [package |-> [i \in 1..Len(pkgs) |->
                    [value |-> pkgs[i].package,
                     selected |-> (Some(pkgs[i].package) = q.package)]],
     output_type |-> [fixed |-> (q.output_type = Some("fixed")),
                      adjustable |-> (q.output_type = Some("adjustable"))],
     is_ldo |-> [yes |-> (q.is_ldo = Some(TRUE)), no |-> (q.is_ldo = Some(FALSE))],
     output_voltage |-> q.output_voltage]

HtmlResponse(pkgs, regs, q) ==
    [kind |-> "html", title |-> "JLCPCB Voltage Regulator Search",
     form |-> HtmlForm(pkgs, q),
     rows |-> [i \in 1..Len(regs) |-> HtmlRow(regs[i])]]

Respond(pkgs, regs, q, api) ==
    IF api THEN JsonResponse(regs) ELSE HtmlResponse(pkgs, regs, q)

(* ---------------- the handler ---------------- *)
\* mutant: the rows returned first are consumed
DbAfterRequest_Consumed(t) == IF t = <<>> THEN t ELSE Tail(t)

\* the handler issues SELECTs only
DbAfterRequest(t) == t

Handle(q, api) ==
    LET pkgs == PackagesQuery(table)
        regs == ExecuteQuery(table, q)
    IN /\ query' = q
       /\ isApiRequest' = api
       /\ packages' = pkgs
       /\ regulators' = regs
       /\ response' = Respond(pkgs, regs, q, api)
       /\ table' = DbAfterRequest(table)

InitRequest ==
    /\ query = NoQuery
    /\ isApiRequest = FALSE
    /\ packages = <<>>
    /\ regulators = <<>>
    /\ response = [kind |-> "none"]
    /\ retried = FALSE

Handled == response.kind # "none"

\* a request arrives and is answered
Request(Q) == /\ ~Handled
              /\ \E q \in Q, api \in BOOLEAN : Handle(q, api)
              /\ retried' = FALSE

\* the client sends the request it has just been answered once more
Retry == /\ Handled
         /\ Handle(query, isApiRequest)
         /\ retried' = TRUE

\* the request cycle ends: the request-scoped values are dropped
Complete == /\ Handled
            /\ query' = NoQuery
            /\ isApiRequest' = FALSE
            /\ packages' = <<>>
            /\ regulators' = <<>>
            /\ response' = [kind |-> "none"]
            /\ retried' = FALSE
            /\ UNCHANGED table

Init == table \in Tables /\ InitRequest

Next == Request(Queries) \/ Retry \/ Complete

Spec == Init /\ [][Next]_vars

InitLimit == table \in BigTables /\ InitRequest

NextLimit == Request(LimitQueries) \/ Retry \/ Complete

SpecLimit == InitLimit /\ [][NextLimit]_vars

(* ======================= properties ======================= *)
\* the output-voltage predicate as the request states it, on one stored row
MinAtMost(r, v) == r.output_voltage_min # None /\ Get(r.output_voltage_min) <= v
MaxAtLeast(r, v) == r.output_voltage_max # None /\ Get(r.output_voltage_max) >= v

StoredLdo(b) == IF b THEN Some(1) ELSE Some(0)

\* the predicates of the filters the request applies, on one stored row
PackageOk(r) ==
    (query.package # None /\ Get(query.package) # EmptyStr) => r.package = Get(query.package)
OutputTypeOk(r) ==
    (query.output_type # None /\ Get(query.output_type) # "")
        => r.output_type = Get(query.output_type)
IsLdoOk(r) ==
    query.is_ldo # None => r.is_low_dropout = StoredLdo(Get(query.is_ldo))
OutputVoltageOk(r) ==
    (query.output_voltage # None /\ Get(query.output_voltage) # 0)
        => (MinAtMost(r, Get(query.output_voltage)) \/ MaxAtLeast(r, Get(query.output_voltage)))

Matches(r) == PackageOk(r) /\ OutputTypeOk(r) /\ IsLdoOk(r) /\ OutputVoltageOk(r)

Returned(r) == \E j \in 1..Len(regulators) : regulators[j] = r

\* C1: every returned record satisfies all the applied filter predicates at
\* once (package, output_type, is_low_dropout = 1/0 for is_ldo true/false,
\* and the output-voltage predicate).
C1_ReturnedSatisfyAllFilters ==
    Handled => \A i \in 1..Len(regulators) :
        /\ regulators[i] = table[regulators[i].lcsc]
        /\ PackageOk(regulators[i])
        /\ OutputTypeOk(regulators[i])
        /\ IsLdoOk(regulators[i])
        /\ OutputVoltageOk(regulators[i])

\* package=SOT-23 with is_ldo=true: something is returned, something is left out
C1_Witness ==
    /\ Handled
    /\ query.package = Some(SOT23) /\ query.is_ldo = Some(TRUE)
    /\ Len(regulators) >= 1
    /\ \E i \in 1..Len(table) : table[i].package = SOT23 /\ ~Returned(table[i])
    /\ \E i \in 1..Len(table) : table[i].is_low_dropout = Some(1) /\ ~Returned(table[i])

\* C2: with the output_voltage filter applied with value v, a record that
\* passes the other filters is returned exactly when min <= v or max >= v
\* (below the row cap, which may cut matching records off).
C2_VoltageIsDisjunction ==
    (Handled /\ query.output_voltage # None /\ Get(query.output_voltage) # 0) =>
        LET v == Get(query.output_voltage) IN
        \A i \in 1..Len(table) :
            (PackageOk(table[i]) /\ OutputTypeOk(table[i]) /\ IsLdoOk(table[i])) =>
                /\ Returned(table[i]) => (MinAtMost(table[i], v) \/ MaxAtLeast(table[i], v))
                /\ (Len(regulators) < Limit /\ (MinAtMost(table[i], v) \/ MaxAtLeast(table[i], v)))
                       => Returned(table[i])

\* the 3.3V..5.0V record is returned for v = 10.0V, and another record fails
\* both comparisons and is left out
C2_Witness ==
    /\ Handled
    /\ query.output_voltage = Some(100)
    /\ \E j \in 1..Len(regulators) :
          /\ regulators[j].output_voltage_min = Some(33)
          /\ regulators[j].output_voltage_max = Some(50)
    /\ \E i \in 1..Len(table) :
          /\ PackageOk(table[i]) /\ OutputTypeOk(table[i]) /\ IsLdoOk(table[i])
          /\ ~Returned(table[i])

\* C3 (as stated, for the two values it names): is_ldo and output_voltage,
\* whenever they are present in the request (is_ldo=false and output_voltage=0
\* included), have their predicate applied to every returned record.
C3_EverySuppliedValueNarrows ==
    Handled => \A i \in 1..Len(regulators) :
        LET r == regulators[i] IN
        /\ query.is_ldo # None => r.is_low_dropout = StoredLdo(Get(query.is_ldo))
        /\ query.output_voltage # None =>
              (MinAtMost(r, Get(query.output_voltage)) \/ MaxAtLeast(r, Get(query.output_voltage)))

\* C3 (amended): a parameter narrows the result when it is supplied with a
\* non-empty string (package, output_type) or a non-zero number
\* (output_voltage); is_ldo narrows whenever it is supplied, false included.
\* A parameter supplied as "" or 0 adds no predicate: the result is the one
\* of the request without it.
C3_NonEmptyValueNarrows ==
    Handled =>
        /\ \A p \in {"package", "output_type", "is_ldo", "output_voltage"} :
             \A i \in 1..Len(regulators) :
                CASE p = "package" -> PackageOk(regulators[i])
                  [] p = "output_type" -> OutputTypeOk(regulators[i])
                  [] p = "is_ldo" -> IsLdoOk(regulators[i])
                  [] p = "output_voltage" -> OutputVoltageOk(regulators[i])
        /\ query.package = Some(EmptyStr)
             => regulators = ExecuteQuery(table, [query EXCEPT !.package = None])
        /\ query.output_type = Some("")
             => regulators = ExecuteQuery(table, [query EXCEPT !.output_type = None])
        /\ query.output_voltage = Some(0)
             => regulators = ExecuteQuery(table, [query EXCEPT !.output_voltage = None])

\* is_ldo=false leaves a stored 1 (or NULL) out and returns a stored 0
C3_Witness ==
    /\ Handled
    /\ query.is_ldo = Some(FALSE)
    /\ Len(regulators) >= 1
    /\ \E i \in 1..Len(table) : table[i].is_low_dropout # Some(0) /\ ~Returned(table[i])

\* C4: at most 100 records are returned, in the query result and in the
\* JSON body or HTML table built from it.
C4_AtMostLimitRows ==
    Handled =>
        /\ Len(regulators) <= Limit
        /\ isApiRequest => Len(response.regulators) <= Limit
        /\ ~isApiRequest => Len(response.rows) <= Limit

\* more than 100 records match the filters and exactly 100 come back
C4_Witness ==
    /\ Handled
    /\ Len(regulators) = Limit
    /\ Cardinality({ i \in 1..Len(table) : Matches(table[i]) }) > Limit
    /\ query.package # None

\* C5: stock is non-increasing across consecutive returned rows.
C5_StockNonIncreasing ==
    Handled => \A i \in 1..(Len(regulators) - 1) :
        /\ regulators[i].stock >= regulators[i + 1].stock
        /\ isApiRequest => response.regulators[i].stock >= response.regulators[i + 1].stock
        /\ ~isApiRequest => response.rows[i].stock >= response.rows[i + 1].stock

\* a row stored later, with more stock, is returned ahead of an earlier one
C5_Witness ==
    /\ Handled
    /\ Len(regulators) >= 2
    /\ regulators[1].lcsc > regulators[2].lcsc
    /\ regulators[1].stock > regulators[2].stock

MatchingIds == { i \in 1..Len(table) : Matches(table[i]) }
ReturnedIds == { regulators[j].lcsc : j \in 1..Len(regulators) }

\* C6: an omitted filter constrains nothing and the cap comes after filtering
\* and ordering: the rows returned are min(100, M) distinct rows out of the M
\* that match the applied filters (so all of them when fewer than 100 come
\* back), no omitted matching row has more stock than a returned one, and
\* with no parameters the result is the min(100, N) rows of highest stock.
C6_CapAfterFilterAndOrder ==
    Handled =>
        /\ ReturnedIds \subseteq MatchingIds
        /\ \A j \in 1..Len(regulators) : regulators[j] = table[regulators[j].lcsc]
        /\ Cardinality(ReturnedIds) = Len(regulators)
        /\ Len(regulators) = Min(Limit, Cardinality(MatchingIds))
        /\ Len(regulators) < Limit => ReturnedIds = MatchingIds
        /\ \A i \in MatchingIds \ ReturnedIds :
              table[i].stock <= regulators[Len(regulators)].stock
        /\ query = NoQuery => Len(regulators) = Min(Limit, Len(table))

\* a filter leaves rows out, more than 100 rows match, and a row stored after
\* the first 100 is returned while a matching row is cut off
C6_Witness ==
    /\ Handled
    /\ Len(regulators) = Limit
    /\ MatchingIds # 1..Len(table)
    /\ MatchingIds # ReturnedIds
    /\ \E j \in 1..Len(regulators) : regulators[j].lcsc > Limit

\* C7: the package list is the set of distinct package values of the whole
\* table, strictly ascending (so without duplicates), on every request and
\* whatever the filters are.
C7_PackagesDistinctAscending ==
    Handled =>
        /\ { packages[i].package : i \in 1..Len(packages) }
              = { table[i].package : i \in 1..Len(table) }
        /\ \A i \in 1..(Len(packages) - 1) :
              StrLess(packages[i].package, packages[i + 1].package)

\* the table repeats a package and stores packages out of order, and the
\* filters leave out every row of some listed package
C7_Witness ==
    /\ Handled
    /\ Len(packages) >= 2
    /\ Len(packages) < Len(table)
    /\ StrLess(table[2].package, table[1].package)
    /\ \E i \in 1..Len(packages) :
          \A j \in 1..Len(regulators) : regulators[j].package # packages[i].package

\* C8: in the JSON body is_low_dropout and is_positive are booleans, TRUE
\* exactly when the stored column is 1.
C8_JsonStrictBooleans ==
    (Handled /\ isApiRequest) =>
        /\ Len(response.regulators) = Len(regulators)
        /\ \A i \in 1..Len(regulators) :
              /\ response.regulators[i].lcsc = regulators[i].lcsc
              /\ response.regulators[i].is_low_dropout \in BOOLEAN
              /\ response.regulators[i].is_positive \in BOOLEAN
              /\ response.regulators[i].is_low_dropout
                    <=> (table[regulators[i].lcsc].is_low_dropout = Some(1))
              /\ response.regulators[i].is_positive
                    <=> (table[regulators[i].lcsc].is_positive = Some(1))

\* a stored NULL and a stored 2 both come out as false, a stored 1 as true
C8_Witness ==
    /\ Handled /\ isApiRequest
    /\ \E i \in 1..Len(regulators) :
          /\ regulators[i].is_low_dropout = None
          /\ regulators[i].is_positive = Some(2)
          /\ response.regulators[i].is_low_dropout = FALSE
          /\ response.regulators[i].is_positive = FALSE
    /\ \E i \in 1..Len(regulators) :
          /\ regulators[i].is_low_dropout = Some(1)
          /\ response.regulators[i].is_low_dropout = TRUE

TableInv ==
    \A i \in 1..Len(table) :
        /\ table[i].output_voltage_min # None
        /\ table[i].output_voltage_max # None
        /\ Get(table[i].output_voltage_min) <= Get(table[i].output_voltage_max)

====
